---- MODULE Spec2Model ----
(***************************************************************************)
(* A model of .opencode/skills/worktree/scripts/worktree.py: the script    *)
(* that creates a git worktree and copies gitignored files into it.        *)
(*                                                                         *)
(* Strings the script inspects character by character (ignore-file lines,  *)
(* file and directory names, glob patterns) are sequences of one-character *)
(* strings; a path relative to the source root is a sequence of names.     *)
(*                                                                         *)
(* What may go wrong around the script: a git command exits non-zero or    *)
(* git is not installed, a file-system call raises OSError, a copy fails,  *)
(* the user presses Ctrl-C (once in a run), another process makes the      *)
(* target path.  Output to the terminal is taken to succeed.               *)
(***************************************************************************)
EXTENDS Integers, Sequences, FiniteSets, TLC

(***************************************************************************)
(* Bounds of the model.                                                    *)
(***************************************************************************)
\* Longest ignore-file line drawn by SpecParse.
MaxLineLen == 3
\* Most files present in a drawn source tree.
MaxFiles == 2

(***************************************************************************)
(* Program constants.                                                      *)
(***************************************************************************)
MAX_FILE_SIZE_BYTES == 10485760

BLACKLIST ==
  { <<"n","o","d","e","_","m","o","d","u","l","e","s">>,
    <<".","v","e","n","v">>,
    <<"v","e","n","v">>,
    <<"_","_","p","y","c","a","c","h","e","_","_">>,
    <<".","c","a","c","h","e">>,
    <<"d","i","s","t">>,
    <<"b","u","i","l","d">>,
    <<".","g","i","t">>,
    <<".","t","o","x">>,
    <<".","p","y","t","e","s","t","_","c","a","c","h","e">>,
    <<".","m","y","p","y","_","c","a","c","h","e">>,
    <<"c","o","v","e","r","a","g","e">>,
    <<".","n","e","x","t">>,
    <<".","n","u","x","t">>,
    <<"v","e","n","d","o","r">>,
    <<".","t","e","r","r","a","f","o","r","m">>,
    <<"t","a","r","g","e","t">>,
    <<".","g","r","a","d","l","e">>,
    <<".","m","2">>,
    <<"*",".","e","g","g","-","i","n","f","o">> }

COMMON_CONFIGS ==
  << << <<".","e","n","v">> >>,
     << <<".","e","n","v",".","l","o","c","a","l">> >>,
     << <<".","e","n","v",".","d","e","v","e","l","o","p","m","e","n","t">> >>,
     << <<".","e","n","v",".","d","e","v","e","l","o","p","m","e","n","t",".","l","o","c","a","l">> >>,
     << <<".","e","n","v",".","t","e","s","t">> >>,
     << <<".","e","n","v",".","t","e","s","t",".","l","o","c","a","l">> >>,
     << <<".","e","n","v",".","p","r","o","d","u","c","t","i","o","n",".","l","o","c","a","l">> >>,
     << <<".","c","l","a","u","d","e">>,
        <<"s","e","t","t","i","n","g","s",".","l","o","c","a","l",".","j","s","o","n">> >>,
     << <<"c","o","n","f","i","g">>, <<"l","o","c","a","l",".","y","a","m","l">> >>,
     << <<"c","o","n","f","i","g">>, <<"l","o","c","a","l",".","y","m","l">> >>,
     << <<"c","o","n","f","i","g">>, <<"l","o","c","a","l",".","j","s","o","n">> >> >>

(***************************************************************************)
(* Python string operations used by the script.                            *)
(***************************************************************************)
\* The whitespace str.strip() removes, as far as the drawn alphabet has it.
Whitespace == {" ", "\t"}

Range(s) == {s[i] : i \in 1..Len(s)}

\* str.lstrip(chars): drop every leading character that is in chars.
RECURSIVE lstrip(_, _)
lstrip(s, chars) ==
  IF s # <<>> /\ Head(s) \in chars THEN lstrip(Tail(s), chars) ELSE s

\* A slip of rstrip: drop at most one trailing character.
rstrip_one(s, chars) ==
  IF s # <<>> /\ s[Len(s)] \in chars THEN SubSeq(s, 1, Len(s) - 1) ELSE s

\* str.rstrip(chars): drop every trailing character that is in chars.
RECURSIVE rstrip(_, _)
rstrip(s, chars) ==
  IF s # <<>> /\ s[Len(s)] \in chars
  THEN rstrip(SubSeq(s, 1, Len(s) - 1), chars)
  ELSE s

\* str.strip(): both ends, whitespace.
strip(s) == rstrip(lstrip(s, Whitespace), Whitespace)

\* str.startswith(c) for a one-character prefix.
startswith(s, c) == s # <<>> /\ Head(s) = c

\* sub in s
Contains(s, sub) ==
  \E i \in 1..(Len(s) - Len(sub) + 1) : SubSeq(s, i, i + Len(sub) - 1) = sub

\* fnmatch.fnmatch(name, pat) on a case-sensitive platform: * matches any run
\* of characters, ? any one character, anything else itself.  (No drawn
\* pattern holds a [ character, so character classes do not arise.)
RECURSIVE fnmatch(_, _)
fnmatch(name, pat) ==
  IF pat = <<>> THEN name = <<>>
  ELSE IF Head(pat) = "*"
       THEN fnmatch(name, Tail(pat))
            \/ (name # <<>> /\ fnmatch(Tail(name), pat))
  ELSE IF Head(pat) = "?"
       THEN name # <<>> /\ fnmatch(Tail(name), Tail(pat))
  ELSE name # <<>> /\ Head(name) = Head(pat) /\ fnmatch(Tail(name), Tail(pat))

(***************************************************************************)
(* is_blacklisted (lines 201-218).                                         *)
(***************************************************************************)
\* A slip of is_blacklisted: the glob entries of the blacklist are ignored.
is_blacklisted_exact_only(path_part) == path_part \in BLACKLIST

is_blacklisted(path_part) ==
  \/ path_part \in BLACKLIST
  \/ \E pattern \in BLACKLIST :
        "*" \in Range(pattern) /\ fnmatch(path_part, pattern)

(***************************************************************************)
(* Reading the ignore file (lines 262-275): one loop turn per line.        *)
(***************************************************************************)
\* What one line appends to patterns: nothing, or one pattern.
pattern_of_line(raw) ==
  LET line == strip(raw) IN
  IF line = <<>> \/ startswith(line, "#") \/ startswith(line, "!")
  THEN <<>>
  ELSE LET stripped == rstrip(line, {"/"}) IN
       IF \/ Contains(stripped, <<"/">>)
          \/ Contains(stripped, <<"\\">>)
          \/ Contains(stripped, <<"*", "*">>)
       THEN <<>>
       ELSE <<stripped>>

RECURSIVE read_patterns(_)
read_patterns(lines) ==
  IF lines = <<>> THEN <<>>
  ELSE pattern_of_line(Head(lines)) \o read_patterns(Tail(lines))

(***************************************************************************)
(* The source tree.  A tree is a function from the relative paths of its   *)
(* files to their sizes in bytes; its directories are the proper prefixes  *)
(* of those paths.                                                         *)
(***************************************************************************)
N_env == <<".","e","n","v">>
N_app_local_json == <<"a","p","p",".","l","o","c","a","l",".","j","s","o","n">>
N_readme_md == <<"r","e","a","d","m","e",".","m","d">>
N_index_js == <<"i","n","d","e","x",".","j","s">>
N_local_yaml == <<"l","o","c","a","l",".","y","a","m","l">>
N_gitignore == <<".","g","i","t","i","g","n","o","r","e">>
N_HEAD == <<"H","E","A","D">>
N_git == <<".","g","i","t">>
N_node_modules == <<"n","o","d","e","_","m","o","d","u","l","e","s">>
N_dist == <<"d","i","s","t">>
N_src == <<"s","r","c">>
N_build == <<"b","u","i","l","d">>
N_lib_egg_info == <<"l","i","b",".","e","g","g","-","i","n","f","o">>
N_config == <<"c","o","n","f","i","g">>
N_wt == <<"w","t">>

\* The order in which the system lists a directory is not the script's to
\* choose: os.walk (line 281) keeps the order of the listing and the script
\* does not sort.
VARIABLE listing

ListingOrders == {"forward", "reverse"}

ForwardOrder ==
  << N_git, N_gitignore, N_env, N_app_local_json, N_readme_md, N_index_js,
     N_local_yaml, N_HEAD, N_node_modules, N_dist, N_src, N_build,
     N_lib_egg_info, N_config, N_wt >>

Reverse(s) == [i \in 1..Len(s) |-> s[Len(s) + 1 - i]]

ListingOrder ==
  IF listing = "reverse" THEN Reverse(ForwardOrder) ELSE ForwardOrder

\* The files a drawn tree may hold.
FileUniverse ==
  { <<N_env>>,
    <<N_app_local_json>>,
    <<N_readme_md>>,
    <<N_node_modules, N_dist, N_index_js>>,
    <<N_src, N_build, N_env>>,
    <<N_lib_egg_info, N_app_local_json>>,
    <<N_config, N_local_yaml>> }

\* The sizes a drawn file may have: small, exactly the ceiling, one more.
FileSizes == {200, MAX_FILE_SIZE_BYTES, MAX_FILE_SIZE_BYTES + 1}

\* Every source root is a git work tree: it holds .git.
BaseTree == (<<N_git, N_HEAD>> :> 23)

\* The files at the source root are drawn in every size, the others small.
SizesOf(f) == IF Len(f) = 1 THEN FileSizes ELSE {200}

SourceTrees ==
  UNION { { BaseTree @@ t :
            t \in { g \in [S -> FileSizes] : \A f \in S : g[f] \in SizesOf(f) } } :
          S \in { X \in SUBSET FileUniverse : Cardinality(X) <= MaxFiles } }

IsPrefix(p, q) == Len(p) <= Len(q) /\ SubSeq(q, 1, Len(p)) = p

\* The child directories and the files of directory root, in listing order.
list_dirs(fs, root) ==
  SelectSeq(ListingOrder,
            LAMBDA d : \E f \in DOMAIN fs :
                         Len(f) > Len(root) + 1 /\ IsPrefix(root \o <<d>>, f))

list_files(fs, root) ==
  SelectSeq(ListingOrder, LAMBDA n : (root \o <<n>>) \in DOMAIN fs)

\* The ignore files a run may find at the source root: none, one that cannot
\* be read, and readable ones (Scenario A's, one whose patterns overlap, one
\* that matches every name, one with no usable pattern).
GitignoreFiles ==
  { [exists |-> FALSE, readable |-> FALSE, lines |-> <<>>],
    [exists |-> TRUE, readable |-> FALSE, lines |-> <<>>],
    [exists |-> TRUE, readable |-> TRUE,
     lines |-> << <<"#"," ","s">>,
                  <<"*",".","l","o","c","a","l",".","j","s","o","n">> >>],
    [exists |-> TRUE, readable |-> TRUE,
     lines |-> << <<".","e","n","v","*">>, <<"?","e","n","v">> >>],
    [exists |-> TRUE, readable |-> TRUE, lines |-> << <<"*">> >>],
    [exists |-> TRUE, readable |-> TRUE,
     lines |-> << <<"#"," ","s">>, <<"!",".","e","n","v">>,
                  <<"s","r","c","/","b">>, <<"*","*","/","x">> >>] }

\* The tree with the ignore file itself in it, when there is one.
with_gitignore(tree, gi) ==
  IF gi.exists THEN (<<N_gitignore>> :> 41) @@ tree ELSE tree

\* What git worktree add checks out at worktree_path: the .git pointer file
\* and the tracked files, here the ignore file.  With worktree_path inside
\* the source root (line 435 resolves any path the user gives) these files
\* are part of the tree that os.walk(source_dir) sees at step 7.
checkout(gi) ==
  (<<N_wt, N_git>> :> 37) @@
  (IF gi.exists THEN (<<N_wt, N_gitignore>> :> 41) ELSE <<>>)

source_tree(tree, gi, inside) ==
  IF inside THEN checkout(gi) @@ with_gitignore(tree, gi)
  ELSE with_gitignore(tree, gi)

(***************************************************************************)
(* find_git_ignored_files (lines 239-320).                                 *)
(***************************************************************************)
EmptyScan ==
  [files_to_copy |-> <<>>, skipped_dirs |-> {}, seen_files |-> {},
   warned_large |-> {}]

\* Lines 301-318: one matched file.
check_file(fs, file_path, acc) ==
  IF file_path \in acc.seen_files THEN acc
  ELSE LET seen == [acc EXCEPT !.seen_files = @ \cup {file_path}] IN
       IF fs[file_path] > MAX_FILE_SIZE_BYTES
       THEN [seen EXCEPT !.warned_large = @ \cup {file_path}]
       ELSE [seen EXCEPT !.files_to_copy = Append(@, file_path)]

\* A slip of the file loop: the break of line 314 leaves the loop over the
\* files too, so the files listed after an oversized one are not looked at.
RECURSIVE check_files_stop_at_large(_, _, _, _, _)
check_files_stop_at_large(fs, root, files, patterns, acc) ==
  IF files = <<>> THEN acc
  ELSE LET filename == Head(files)
           file_path == root \o <<filename>>
           matched == \E i \in 1..Len(patterns) : fnmatch(filename, patterns[i])
       IN IF matched /\ file_path \notin acc.seen_files
             /\ fs[file_path] > MAX_FILE_SIZE_BYTES
          THEN check_file(fs, file_path, acc)
          ELSE check_files_stop_at_large(fs, root, Tail(files), patterns,
                                         IF matched
                                         THEN check_file(fs, file_path, acc)
                                         ELSE acc)

\* Lines 295-318: the files of one directory, first matching pattern wins.
RECURSIVE check_files(_, _, _, _, _)
check_files(fs, root, files, patterns, acc) ==
  IF files = <<>> THEN acc
  ELSE LET filename == Head(files)
           matched == \E i \in 1..Len(patterns) : fnmatch(filename, patterns[i])
       IN check_files(fs, root, Tail(files), patterns,
                      IF matched THEN check_file(fs, root \o <<filename>>, acc)
                      ELSE acc)

\* A slip of the pruning: the blacklisted directories stay in dirs.
prune_nothing(dirs) == dirs

\* Lines 286-292: dirs with the blacklisted names removed.
prune_dirs(dirs) == SelectSeq(dirs, LAMBDA d : ~is_blacklisted(d))

\* Lines 281-318: os.walk, top down; stack holds the directories still to
\* visit, the next one first.
RECURSIVE walk(_, _, _, _)
walk(fs, patterns, stack, acc) ==
  IF stack = <<>> THEN acc
  ELSE LET root == Head(stack)
           dirs == list_dirs(fs, root)
           kept == prune_dirs(dirs)
           skipped == {d \in Range(dirs) : is_blacklisted(d)}
           acc1 == [acc EXCEPT !.skipped_dirs = @ \cup skipped]
           acc2 == check_files(fs, root, list_files(fs, root), patterns, acc1)
       IN walk(fs, patterns,
               [i \in 1..Len(kept) |-> root \o <<kept[i]>>] \o Tail(stack),
               acc2)

find_git_ignored_files(fs, gi) ==
  IF ~gi.exists THEN EmptyScan
  ELSE IF ~gi.readable THEN EmptyScan
  ELSE walk(fs, read_patterns(gi.lines), << <<>> >>, EmptyScan)

(***************************************************************************)
(* find_common_config_files (lines 323-343).                               *)
(***************************************************************************)
\* A slip of the lookup: the seen set is not consulted.
config_is_new_always(config_path, seen) == TRUE

\* Line 339.
config_is_new(config_path, seen) == config_path \notin seen

RECURSIVE find_common_config_files_from(_, _, _, _)
find_common_config_files_from(fs, configs, seen, found) ==
  IF configs = <<>> THEN [config_files |-> found, seen_files |-> seen]
  ELSE LET config_path == Head(configs) IN
       IF config_path \in DOMAIN fs /\ config_is_new(config_path, seen)
       THEN find_common_config_files_from(fs, Tail(configs),
                                          seen \cup {config_path},
                                          Append(found, config_path))
       ELSE find_common_config_files_from(fs, Tail(configs), seen, found)

find_common_config_files(fs, seen) ==
  find_common_config_files_from(fs, COMMON_CONFIGS, seen, <<>>)

\* Lines 498-503 and 508-512: the sizes of the listed files, summed.
RECURSIVE sum_sizes(_, _)
sum_sizes(fs, files) ==
  IF files = <<>> THEN 0 ELSE fs[Head(files)] + sum_sizes(fs, Tail(files))

(***************************************************************************)
(* The state of one run of main (lines 391-580).                           *)
(***************************************************************************)
VARIABLES
  pc,              \* the step main is about to take
  exitCode,        \* the process's exit status; -1 while it runs
  escaped,         \* the exception that left main uncaught, or "none"
  errorMsg,        \* the error or warning the exit path printed, or "none"
  failedAt,        \* the step at which a fatal error struck, or "none"
  gitInstalled,    \* whether the git binary can be started
  commands,        \* the git commands started so far, with their outcome
  branch_exists,   \* main's branch_exists
  worktreeOnDisk,  \* whether worktree_path exists on disk
  existedAtStart,  \* whether worktree_path existed when the run began
  wtFiles,         \* the relative paths copied into the worktree
  cleanup_called,  \* whether cleanup_on_failure was called
  cleanupLog,      \* the removal steps cleanup_on_failure took
  fs,              \* the source tree as the run finds it
  gitignore,       \* the ignore file at the source root
  patterns,        \* the patterns read from the ignore file
  files_to_copy,   \* main's files_to_copy
  skipped_dirs,    \* main's skipped_dirs
  seen_files,      \* main's seen_files
  warned_large,    \* the files reported as "Skipping large file"
  total_size,      \* main's total_size
  copyIdx,         \* the position of the copy loop in files_to_copy
  attempts,        \* the calls of copy_file_with_metadata, in order
  copied_count,    \* main's copied_count
  report,          \* the summary printed by step 10
  createdBy,       \* who made worktree_path: "none", "run" or "other"
  registered,      \* whether git lists the worktree of this run
  newBranch,       \* whether this run's worktree add -b made the branch
  wtInside,        \* whether worktree_path lies inside the source root
  rescan           \* what a second scan of the same tree returned

ctl == <<pc, exitCode, escaped, errorMsg, failedAt>>
git == <<gitInstalled, commands, branch_exists>>
disk == <<worktreeOnDisk, existedAtStart, wtFiles>>
clean == <<cleanup_called, cleanupLog>>
src == <<fs, gitignore, patterns>>
scan == <<files_to_copy, skipped_dirs, seen_files, warned_large, total_size>>
copy == <<copyIdx, attempts, copied_count>>
repo == <<createdBy, registered, newBranch>>
aux == <<wtInside, listing, rescan>>
vars == <<ctl, git, disk, clean, src, scan, copy, report, repo, aux>>

\* The steps inside main's try block (lines 459-567).
TrySteps ==
  {"check_branch", "create_worktree", "find_files", "find_configs",
   "copy_files", "report"}

\* format_size (lines 221-236): whole units, the division rounding down.
format_size(size_bytes) ==
  IF size_bytes < 1024 THEN <<size_bytes, "B">>
  ELSE IF size_bytes < 1024 * 1024 THEN <<size_bytes \div 1024, "KB">>
  ELSE <<size_bytes \div (1024 * 1024), "MB">>

\* Nothing printed yet by step 10 / no second scan made yet.
NoReport ==
  [printed |-> FALSE, files |-> 0, total |-> <<0, "none">>, skipped |-> {}]

NoRescan == [done |-> FALSE, files |-> <<>>, skipped |-> {}]

\* The values every run starts with, apart from its environment.
Fresh ==
  /\ exitCode = -1
  /\ escaped = "none"
  /\ errorMsg = "none"
  /\ failedAt = "none"
  /\ commands = <<>>
  /\ branch_exists = FALSE
  /\ wtFiles = {}
  /\ cleanup_called = FALSE
  /\ cleanupLog = <<>>
  /\ fs = <<>>
  /\ patterns = <<>>
  /\ files_to_copy = <<>>
  /\ skipped_dirs = {}
  /\ seen_files = {}
  /\ warned_large = {}
  /\ total_size = 0
  /\ copyIdx = 1
  /\ attempts = <<>>
  /\ copied_count = 0
  /\ report = NoReport
  /\ listing = "forward"
  /\ rescan = NoRescan

\* A path that exists when the run begins was made by someone else.
Init ==
  /\ pc = "validate_repository"
  /\ gitInstalled \in BOOLEAN
  /\ worktreeOnDisk \in BOOLEAN
  /\ existedAtStart = worktreeOnDisk
  /\ createdBy = IF worktreeOnDisk THEN "other" ELSE "none"
  /\ registered = FALSE
  /\ newBranch = FALSE
  /\ wtInside \in BOOLEAN
  /\ gitignore = [exists |-> FALSE, readable |-> FALSE, lines |-> <<>>]
  /\ Fresh

(***************************************************************************)
(* run_git_command (lines 154-176).                                        *)
(***************************************************************************)
\* How a call with check=True may end: it returns, it raises
\* CalledProcessError (non-zero exit), or, with no git binary, RuntimeError.
run_git_command ==
  IF gitInstalled THEN {"ok", "CalledProcessError"} ELSE {"RuntimeError"}

\* The command log after a call: a command that could not be started is not
\* in it.
Logged(cmd, outcome) ==
  IF outcome = "RuntimeError" THEN commands
  ELSE Append(commands, [cmd |-> cmd, ok |-> (outcome = "ok")])

(***************************************************************************)
(* The ways main ends.                                                     *)
(***************************************************************************)
\* print_error / print_warn, then sys.exit(code); or falling off main's end.
Exit(code, msg) ==
  /\ pc' = "exited"
  /\ exitCode' = code
  /\ errorMsg' = msg
  /\ escaped' = "none"

\* An exception no handler of main catches: the interpreter prints the
\* traceback and ends the process.
Escape(kind, code) ==
  /\ pc' = "exited"
  /\ exitCode' = code
  /\ errorMsg' = "Traceback"
  /\ escaped' = kind
  /\ failedAt' = pc

\* How the interpreter ends on an uncaught KeyboardInterrupt: status 1
\* (Python 3.7) or death by SIGINT, seen as 130 (Python 3.8 and later).
UncaughtInterruptStatus == {1, 130}

(***************************************************************************)
(* cleanup_on_failure (lines 369-388): the ways it may go when the path    *)
(* exists or not.  The removal command and the recursive delete sit in     *)
(* try blocks with a bare except; the two worktree_path.exists() tests     *)
(* (lines 371 and 384) and print_warn (line 372) do not, and Path.exists() *)
(* passes on every OSError but "no such file" and its kin (access denied,  *)
(* a stale mount, an I/O error).                                           *)
(***************************************************************************)
RemoveStep(ok) == [step |-> "git worktree remove --force", removed |-> ok]

RmtreeStep(ok) == [step |-> "rmtree", removed |-> ok]

CleanupOutcome(log, onDisk, raised) ==
  [log |-> log, onDisk |-> onDisk, raised |-> raised]

\* A slip of cleanup_on_failure: the recursive delete is left out.
cleanup_without_rmtree(onDisk) ==
  IF ~onDisk
  THEN { CleanupOutcome(<<>>, FALSE, "none"),
         CleanupOutcome(<<>>, FALSE, "OSError") }
  ELSE { CleanupOutcome(<<RemoveStep(TRUE)>>, FALSE, "none"),
         CleanupOutcome(<<RemoveStep(FALSE)>>, TRUE, "none"),
         CleanupOutcome(<<>>, TRUE, "OSError"),
         CleanupOutcome(<<RemoveStep(TRUE)>>, FALSE, "OSError"),
         CleanupOutcome(<<RemoveStep(FALSE)>>, TRUE, "OSError") }

cleanup_on_failure(onDisk) ==
  IF ~onDisk
  THEN { CleanupOutcome(<<>>, FALSE, "none"),
         \* line 371 raises
         CleanupOutcome(<<>>, FALSE, "OSError") }
  ELSE { CleanupOutcome(<<RemoveStep(TRUE)>>, FALSE, "none"),
         CleanupOutcome(<<RemoveStep(FALSE), RmtreeStep(TRUE)>>, FALSE, "none"),
         CleanupOutcome(<<RemoveStep(FALSE), RmtreeStep(FALSE)>>, TRUE, "none"),
         \* line 371 raises: nothing was tried
         CleanupOutcome(<<>>, TRUE, "OSError"),
         \* line 384 raises, after the removal command went well or not
         CleanupOutcome(<<RemoveStep(TRUE)>>, FALSE, "OSError"),
         CleanupOutcome(<<RemoveStep(FALSE)>>, TRUE, "OSError") }

\* Whether the removal command of a cleanup went well: it takes the
\* directory and git's registration of the worktree with it.
Unregistered(log) == \E i \in 1..Len(log) : log[i] = RemoveStep(TRUE)

\* Lines 569-580: each except clause prints, calls cleanup_on_failure and
\* exits with status 1; an exception raised by cleanup_on_failure inside the
\* except clause is caught by nothing.  onDisk is whether the path exists
\* when cleanup_on_failure is called: a path that was not there before this
\* step was made by the failing command of this run.
HandleFailure(msg, onDisk) ==
  \E out \in cleanup_on_failure(onDisk) :
    /\ cleanup_called' = TRUE
    /\ cleanupLog' = out.log
    /\ worktreeOnDisk' = out.onDisk
    /\ wtFiles' = IF out.onDisk THEN wtFiles ELSE {}
    /\ createdBy' = IF onDisk /\ ~worktreeOnDisk THEN "run" ELSE createdBy
    /\ registered' = (registered /\ ~Unregistered(out.log))
    /\ IF out.raised = "none"
       THEN /\ failedAt' = pc
            /\ Exit(1, msg)
       ELSE Escape(out.raised, 1)
    /\ UNCHANGED <<existedAtStart, newBranch>>

(***************************************************************************)
(* main, step by step.                                                     *)
(***************************************************************************)
\* Step 1 (lines 413-418): git rev-parse --git-dir.  Only
\* CalledProcessError is caught here.
ValidateRepository ==
  /\ pc = "validate_repository"
  /\ \E outcome \in run_git_command :
       /\ commands' = Logged("rev-parse --git-dir", outcome)
       /\ CASE outcome = "ok" ->
                 /\ pc' = "repository_info"
                 /\ UNCHANGED <<exitCode, escaped, errorMsg, failedAt>>
            [] outcome = "CalledProcessError" ->
                 /\ Exit(1, "Not a git repository")
                 /\ UNCHANGED failedAt
            [] OTHER -> Escape(outcome, 1)
  /\ UNCHANGED <<gitInstalled, branch_exists, disk, clean, src, scan, copy, report, repo, aux>>

\* Lines 420-424: git rev-parse --show-toplevel, outside any try.
RepositoryInfo ==
  /\ pc = "repository_info"
  /\ \E outcome \in run_git_command :
       /\ commands' = Logged("rev-parse --show-toplevel", outcome)
       /\ IF outcome = "ok"
          THEN /\ pc' = "validate_branch"
               /\ UNCHANGED <<exitCode, escaped, errorMsg, failedAt>>
          ELSE Escape(outcome, 1)
  /\ UNCHANGED <<gitInstalled, branch_exists, disk, clean, src, scan, copy, report, repo, aux>>

\* A slip of step 3.1: the verdict of validate_branch_name is not acted on.
ValidateBranchName_unchecked ==
  /\ pc = "validate_branch"
  /\ \E outcome \in run_git_command :
       /\ commands' = Logged("check-ref-format --branch", outcome)
       /\ IF outcome = "RuntimeError"
          THEN Escape(outcome, 1)
          ELSE /\ pc' = "check_path"
               /\ UNCHANGED <<exitCode, escaped, errorMsg, failedAt>>
  /\ UNCHANGED <<gitInstalled, branch_exists, disk, clean, src, scan, copy,
                 report, repo, aux>>

\* Steps 2 to 3.1 (lines 428-448): the path and the branch are taken from
\* the arguments or generated, then validate_branch_name (lines 179-193)
\* asks git check-ref-format.
ValidateBranchName ==
  /\ pc = "validate_branch"
  /\ \E outcome \in run_git_command :
       /\ commands' = Logged("check-ref-format --branch", outcome)
       /\ CASE outcome = "ok" ->
                 /\ pc' = "check_path"
                 /\ UNCHANGED <<exitCode, escaped, errorMsg, failedAt>>
            [] outcome = "CalledProcessError" ->
                 /\ Exit(1, "Invalid branch name")
                 /\ UNCHANGED failedAt
            [] OTHER -> Escape(outcome, 1)
  /\ UNCHANGED <<gitInstalled, branch_exists, disk, clean, src, scan, copy, report, repo, aux>>

\* A slip of step 4: the existing path is not noticed.
CheckPathExists_ignored ==
  /\ pc = "check_path"
  /\ pc' = "check_branch"
  /\ UNCHANGED <<exitCode, escaped, errorMsg, failedAt>>
  /\ UNCHANGED <<git, disk, clean, src, scan, copy, report, repo, aux>>

\* Step 4 (lines 453-457).
CheckPathExists ==
  /\ pc = "check_path"
  /\ IF worktreeOnDisk
     THEN /\ Exit(1, "Path already exists")
          /\ UNCHANGED failedAt
     ELSE /\ pc' = "check_branch"
          /\ UNCHANGED <<exitCode, escaped, errorMsg, failedAt>>
  /\ UNCHANGED <<git, disk, clean, src, scan, copy, report, repo, aux>>

\* A slip of step 5: line 470 is missing, a branch found on the remote
\* only does not count as existing.
CheckBranchExists_local_only ==
  /\ pc = "check_branch"
  /\ \E local \in run_git_command :
       IF local = "RuntimeError"
       THEN /\ HandleFailure("Unexpected error", worktreeOnDisk)
            /\ UNCHANGED <<git, src, scan, copy, report, aux>>
       ELSE IF local = "ok"
       THEN /\ commands' = Logged("show-ref refs/heads", local)
            /\ branch_exists' = TRUE
            /\ pc' = "create_worktree"
            /\ UNCHANGED <<exitCode, escaped, errorMsg, failedAt, gitInstalled,
                           disk, clean, src, scan, copy, report, repo, aux>>
       ELSE \E remote \in {"ok", "CalledProcessError"} :
            /\ commands' = commands \o
                 << [cmd |-> "show-ref refs/heads", ok |-> FALSE],
                    [cmd |-> "show-ref refs/remotes/origin", ok |-> (remote = "ok")] >>
            /\ branch_exists' = FALSE
            /\ pc' = "create_worktree"
            /\ UNCHANGED <<exitCode, escaped, errorMsg, failedAt, gitInstalled,
                           disk, clean, src, scan, copy, report, repo, aux>>

\* Step 5 (lines 460-472): the local ref, and the remote-tracking ref only
\* when the local one is absent.
CheckBranchExists ==
  /\ pc = "check_branch"
  /\ \E local \in run_git_command :
       IF local = "RuntimeError"
       THEN /\ HandleFailure("Unexpected error", worktreeOnDisk)
            /\ UNCHANGED <<git, src, scan, copy, report, aux>>
       ELSE IF local = "ok"
       THEN /\ commands' = Logged("show-ref refs/heads", local)
            /\ branch_exists' = TRUE
            /\ pc' = "create_worktree"
            /\ UNCHANGED <<exitCode, escaped, errorMsg, failedAt, gitInstalled,
                           disk, clean, src, scan, copy, report, repo, aux>>
       ELSE \E remote \in {"ok", "CalledProcessError"} :
            /\ commands' = commands \o
                 << [cmd |-> "show-ref refs/heads", ok |-> FALSE],
                    [cmd |-> "show-ref refs/remotes/origin", ok |-> (remote = "ok")] >>
            /\ branch_exists' = (remote = "ok")
            /\ pc' = "create_worktree"
            /\ UNCHANGED <<exitCode, escaped, errorMsg, failedAt, gitInstalled,
                           disk, clean, src, scan, copy, report, repo, aux>>

\* Between the test of line 454 and the command of line 478 or 482 nothing
\* holds the path: another process may make a directory there and put its
\* files in it.
OtherActorCreatesPath ==
  /\ pc \in {"check_branch", "create_worktree"}
  /\ ~worktreeOnDisk
  /\ worktreeOnDisk' = TRUE
  /\ createdBy' = "other"
  /\ UNCHANGED <<ctl, git, existedAtStart, wtFiles, clean, src, scan, copy,
                 report, registered, newBranch, aux>>

\* Step 6 (lines 474-484): git worktree add, onto the branch or with -b.
\* git refuses a path that holds files; otherwise a failed command may leave
\* the directory behind or not.  A command that went well made the
\* directory, registered the worktree and, with -b, made the branch.
CreateWorktree ==
  /\ pc = "create_worktree"
  /\ LET cmd == IF branch_exists THEN "worktree add" ELSE "worktree add -b" IN
     \E outcome \in (IF worktreeOnDisk THEN run_git_command \ {"ok"}
                     ELSE run_git_command) :
       /\ commands' = Logged(cmd, outcome)
       /\ IF outcome = "ok"
          THEN /\ worktreeOnDisk' = TRUE
               /\ createdBy' = "run"
               /\ registered' = TRUE
               /\ newBranch' = ~branch_exists
               /\ pc' = "find_files"
               /\ UNCHANGED <<exitCode, escaped, errorMsg, failedAt,
                              existedAtStart, wtFiles, clean>>
          ELSE \E left \in (IF worktreeOnDisk THEN {TRUE} ELSE BOOLEAN) :
                 HandleFailure(IF outcome = "RuntimeError"
                               THEN "Unexpected error"
                               ELSE "CalledProcessError", left)
  /\ UNCHANGED <<gitInstalled, branch_exists, src, scan, copy, report, aux>>

\* Step 7 (lines 486-503): the ignore-pattern scan, run only when the
\* ignore file exists; main's seen_files holds the files the scan returned.
FindIgnoredFiles ==
  /\ pc = "find_files"
  /\ \E tree \in SourceTrees, gi \in GitignoreFiles :
       LET t == source_tree(tree, gi, wtInside)
           found == IF gi.exists THEN find_git_ignored_files(t, gi) ELSE EmptyScan
       IN /\ fs' = t
          /\ gitignore' = gi
          /\ patterns' = IF gi.exists /\ gi.readable
                         THEN read_patterns(gi.lines) ELSE <<>>
          /\ files_to_copy' = found.files_to_copy
          /\ skipped_dirs' = found.skipped_dirs
          /\ warned_large' = found.warned_large
          /\ seen_files' = Range(found.files_to_copy)
          /\ total_size' = sum_sizes(t, found.files_to_copy)
  /\ pc' = "find_configs"
  /\ UNCHANGED <<exitCode, escaped, errorMsg, failedAt, git, disk, clean, copy,
                 report, repo, aux>>

\* Step 8 (lines 505-512): the common-config lookup.
FindConfigFiles ==
  /\ pc = "find_configs"
  /\ LET found == find_common_config_files(fs, seen_files) IN
       /\ files_to_copy' = files_to_copy \o found.config_files
       /\ seen_files' = found.seen_files
       /\ total_size' = total_size + sum_sizes(fs, found.config_files)
  /\ pc' = "copy_files"
  /\ UNCHANGED <<exitCode, escaped, errorMsg, failedAt, git, disk, clean, src,
                 skipped_dirs, warned_large, copy, report, repo, aux>>

\* A slip of step 9: the exception of a failed copy is not swallowed and
\* reaches line 577.
CopyFile_failure_fatal ==
  /\ pc = "copy_files"
  /\ copyIdx <= Len(files_to_copy)
  /\ \E copied \in BOOLEAN :
       /\ attempts' = Append(attempts, [file |-> files_to_copy[copyIdx],
                                        ok |-> copied])
       /\ IF copied
          THEN /\ copied_count' = copied_count + 1
               /\ wtFiles' = wtFiles \cup {files_to_copy[copyIdx]}
               /\ UNCHANGED <<ctl, worktreeOnDisk, existedAtStart, clean, repo>>
          ELSE /\ HandleFailure("Unexpected error", worktreeOnDisk)
               /\ UNCHANGED copied_count
  /\ copyIdx' = copyIdx + 1
  /\ UNCHANGED <<git, src, scan, report, aux>>

\* Step 9 (lines 514-533): one turn of the copy loop.
\* copy_file_with_metadata (lines 346-366) returns False on any exception.
CopyFile ==
  /\ pc = "copy_files"
  /\ copyIdx <= Len(files_to_copy)
  /\ \E copied \in BOOLEAN :
       /\ attempts' = Append(attempts, [file |-> files_to_copy[copyIdx],
                                        ok |-> copied])
       /\ copied_count' = IF copied THEN copied_count + 1 ELSE copied_count
       /\ wtFiles' = IF copied THEN wtFiles \cup {files_to_copy[copyIdx]}
                     ELSE wtFiles
  /\ copyIdx' = copyIdx + 1
  /\ UNCHANGED <<ctl, git, worktreeOnDisk, existedAtStart, clean, src, scan,
                 report, repo, aux>>

\* The copy loop is over (or files_to_copy was empty, line 516).
CopyDone ==
  /\ pc = "copy_files"
  /\ copyIdx > Len(files_to_copy)
  /\ pc' = "report"
  /\ UNCHANGED <<exitCode, escaped, errorMsg, failedAt, git, disk, clean, src,
                 scan, copy, report, repo, aux>>

\* Step 10 (lines 535-567): the summary; main returns, exit status 0.  The
\* "Total:" line is printed only when a file was copied (line 547).
Report ==
  /\ pc = "report"
  /\ report' = [printed |-> TRUE, files |-> copied_count,
                total |-> IF copied_count > 0 THEN format_size(total_size)
                          ELSE <<0, "none">>,
                skipped |-> skipped_dirs]
  /\ Exit(0, "none")
  /\ UNCHANGED <<failedAt, git, disk, clean, src, scan, copy, repo, aux>>

\* Ctrl-C while main runs, once in a run.  Inside the try block line 573
\* catches it; before it nothing does.
KeyboardInterrupt ==
  /\ pc # "exited"
  /\ IF pc \in TrySteps
     THEN HandleFailure("Operation cancelled by user", worktreeOnDisk)
     ELSE /\ \E status \in UncaughtInterruptStatus :
               Escape("KeyboardInterrupt", status)
          /\ UNCHANGED <<disk, clean, repo>>
  /\ UNCHANGED <<git, src, scan, copy, report, aux>>

\* An exception other than CalledProcessError raised after the worktree was
\* created: Path.exists() on an unsearchable directory, which steps 7 and 8
\* call outside any try (lines 493 and 338).  Line 577 catches it.  Steps 9
\* and 10 touch the file system only inside try blocks; output to the
\* terminal is taken to succeed throughout.
UnexpectedError ==
  /\ pc \in {"find_files", "find_configs"}
  /\ HandleFailure("Unexpected error", worktreeOnDisk)
  /\ UNCHANGED <<git, src, scan, copy, report, aux>>

Next ==
  \/ ValidateRepository
  \/ RepositoryInfo
  \/ ValidateBranchName
  \/ CheckPathExists
  \/ CheckBranchExists
  \/ OtherActorCreatesPath
  \/ CreateWorktree
  \/ FindIgnoredFiles
  \/ FindConfigFiles
  \/ CopyFile
  \/ CopyDone
  \/ Report
  \/ KeyboardInterrupt
  \/ UnexpectedError

Spec == Init /\ [][Next]_vars

\* The script is one sequential process (no thread, no timer, no retry):
\* as long as every git command and every file-system call returns, main
\* goes on to its next statement.  Interruptions, errors of the file system
\* and other processes are not bound to happen.
MainStep ==
  \/ ValidateRepository
  \/ RepositoryInfo
  \/ ValidateBranchName
  \/ CheckPathExists
  \/ CheckBranchExists
  \/ CreateWorktree
  \/ FindIgnoredFiles
  \/ FindConfigFiles
  \/ CopyFile
  \/ CopyDone
  \/ Report

SpecLive == Spec /\ WF_vars(MainStep)

(***************************************************************************)
(* Reading an ignore file on its own: the file is drawn from every line    *)
(* over a small alphabet, alone or followed by a second line.              *)
(***************************************************************************)
Alphabet == {"a", "*", "/", "\\", "#", "!", " "}

Lines == UNION { [1..n -> Alphabet] : n \in 0..MaxLineLen }

SecondLines == { <<"a">>, <<"a", "/", "/">> }

InitParse ==
  /\ pc = "read_patterns"
  /\ gitInstalled = TRUE
  /\ worktreeOnDisk = TRUE
  /\ existedAtStart = FALSE
  /\ createdBy = "run"
  /\ registered = TRUE
  /\ newBranch = TRUE
  /\ wtInside = FALSE
  /\ \E l \in Lines :
       \/ gitignore = [exists |-> TRUE, readable |-> TRUE, lines |-> <<l>>]
       \/ \E m \in SecondLines :
            gitignore = [exists |-> TRUE, readable |-> TRUE, lines |-> <<l, m>>]
  /\ Fresh

\* Lines 262-275: the loop over the lines of the file.
ReadPatterns ==
  /\ pc = "read_patterns"
  /\ patterns' = read_patterns(gitignore.lines)
  /\ pc' = "patterns_read"
  /\ UNCHANGED <<exitCode, escaped, errorMsg, failedAt, git, disk, clean, fs,
                 gitignore, scan, copy, report, repo, aux>>

SpecParse == InitParse /\ [][ReadPatterns]_vars

(***************************************************************************)
(* The scan on its own, made twice over the same tree: steps 7 and 8 of a  *)
(* run, then the same lines again, the system listing the directories in   *)
(* the same order or in another.                                           *)
(***************************************************************************)
InitScan ==
  /\ pc = "find_files"
  /\ gitInstalled = TRUE
  /\ worktreeOnDisk = TRUE
  /\ existedAtStart = FALSE
  /\ createdBy = "run"
  /\ registered = TRUE
  /\ newBranch \in BOOLEAN
  /\ wtInside \in BOOLEAN
  /\ gitignore = [exists |-> FALSE, readable |-> FALSE, lines |-> <<>>]
  /\ Fresh

\* Line 281: the listing order the second scan meets.
Relist ==
  /\ pc = "copy_files"
  /\ ~rescan.done
  /\ listing = "forward"
  /\ \E order \in ListingOrders : listing' = order
  /\ pc' = "rescan"
  /\ UNCHANGED <<exitCode, escaped, errorMsg, failedAt, git, disk, clean, src,
                 scan, copy, report, repo, wtInside, rescan>>

\* Lines 486-512 once more, with fresh files_to_copy, skipped_dirs and
\* seen_files.
Rescan ==
  /\ pc = "rescan"
  /\ LET found == IF gitignore.exists
                  THEN find_git_ignored_files(fs, gitignore) ELSE EmptyScan
         configs == find_common_config_files(fs, Range(found.files_to_copy))
     IN rescan' = [done |-> TRUE,
                   files |-> found.files_to_copy \o configs.config_files,
                   skipped |-> found.skipped_dirs]
  /\ pc' = "rescanned"
  /\ UNCHANGED <<exitCode, escaped, errorMsg, failedAt, git, disk, clean, src,
                 scan, copy, report, repo, wtInside, listing>>

NextScan ==
  \/ FindIgnoredFiles
  \/ FindConfigFiles
  \/ Relist
  \/ Rescan

SpecScan == InitScan /\ [][NextScan]_vars

(***************************************************************************)
(* Properties.                                                             *)
(***************************************************************************)
Exited == pc = "exited"

AddCommands == {"worktree add", "worktree add -b"}

\* A worktree-add command was started / returned with status 0.
AddIssued ==
  \E i \in 1..Len(commands) : commands[i].cmd \in AddCommands

AddSucceeded ==
  \E i \in 1..Len(commands) :
    commands[i].cmd \in AddCommands /\ commands[i].ok

\* The run ended on a fatal error that struck after a successful
\* worktree add.
FailedAfterCreation == Exited /\ AddSucceeded /\ failedAt # "none"

BothRemovalsFailed ==
  /\ Len(cleanupLog) = 2
  /\ cleanupLog[1].step = "git worktree remove --force"
  /\ ~cleanupLog[1].removed
  /\ cleanupLog[2].step = "rmtree"
  /\ ~cleanupLog[2].removed

\* C1 as stated: after a successful worktree add, a fatal failure runs the
\* cleanup, leaves no worktree directory on disk and exits with status 1.
C1_Original ==
  FailedAfterCreation =>
    cleanup_called /\ ~worktreeOnDisk /\ exitCode = 1

\* C1, amended: after a successful worktree add, a fatal failure calls the
\* cleanup and the process ends with status 1.  When the cleanup returns,
\* main has caught the error and the directory is gone at exit unless both
\* the forced worktree-remove command and the recursive delete, each
\* attempted once, failed to remove it.  When the cleanup raises at one of
\* its existence tests, the error leaves main uncaught, the recursive delete
\* was not attempted and the directory is gone only if the removal command
\* took it.
C1_CleanupBestEffort ==
  FailedAfterCreation =>
    /\ cleanup_called
    /\ exitCode = 1
    /\ escaped = "none" =>
         /\ cleanupLog # <<>>
         /\ cleanupLog[1].step = "git worktree remove --force"
         /\ worktreeOnDisk <=> BothRemovalsFailed
         /\ ~worktreeOnDisk => cleanupLog[Len(cleanupLog)].removed
    /\ escaped # "none" =>
         /\ escaped = "OSError"
         /\ Len(cleanupLog) <= 1
         /\ \A i \in 1..Len(cleanupLog) :
              cleanupLog[i].step = "git worktree remove --force"
         /\ worktreeOnDisk <=> ~Unregistered(cleanupLog)

\* Scenario E: an interruption during the copy loop, the directory removed.
C1_Witness ==
  /\ FailedAfterCreation
  /\ failedAt = "copy_files"
  /\ errorMsg = "Operation cancelled by user"
  /\ attempts # <<>>
  /\ ~worktreeOnDisk

\* The run ended on one of the three checks made before the try block.
PreCreationExit ==
  /\ Exited
  /\ errorMsg \in {"Not a git repository", "Invalid branch name",
                   "Path already exists"}

RejectedBranch ==
  \E i \in 1..Len(commands) :
    commands[i].cmd = "check-ref-format --branch" /\ ~commands[i].ok

NotARepository ==
  \E i \in 1..Len(commands) :
    commands[i].cmd = "rev-parse --git-dir" /\ ~commands[i].ok

\* C2: a run that finds no repository, a rejected branch name or an existing
\* target path exits with status 1 without ever starting worktree add,
\* without calling the cleanup and without creating or removing anything.
C2_NoStateBeforeCreation ==
  /\ (existedAtStart \/ RejectedBranch \/ NotARepository) => ~AddIssued
  /\ (Exited /\ escaped = "none"
        /\ (existedAtStart \/ RejectedBranch \/ NotARepository))
       => PreCreationExit
  /\ PreCreationExit =>
       /\ exitCode = 1
       /\ ~AddIssued
       /\ ~cleanup_called
       /\ cleanupLog = <<>>
       /\ worktreeOnDisk = existedAtStart
       /\ wtFiles = {}
       /\ attempts = <<>>

\* Scenario D: the target path exists.
C2_Witness ==
  /\ Exited
  /\ errorMsg = "Path already exists"
  /\ existedAtStart
  /\ exitCode = 1

\* C3 as stated: no file larger than the ceiling is in the copy set or in
\* the worktree, however it was found.
C3_NoOversizedCopied ==
  /\ \A i \in 1..Len(files_to_copy) :
       fs[files_to_copy[i]] <= MAX_FILE_SIZE_BYTES
  /\ \A f \in wtFiles : fs[f] <= MAX_FILE_SIZE_BYTES

\* C4 as stated: an error raised while syncing files (scan, common-config
\* lookup, copy) after a successful worktree add does not fail the run nor
\* remove the worktree.
C4_SyncErrorsNotFatal ==
  (Exited /\ AddSucceeded /\ errorMsg = "Unexpected error"
     /\ failedAt \in {"find_files", "find_configs", "copy_files"})
    => (exitCode = 0 /\ worktreeOnDisk /\ report.printed)

\* The copy loop has called copy_file_with_metadata on the first
\* copyIdx - 1 files of the list, once each, in the order of the list.
AttemptsFollowList ==
  /\ Len(attempts) = copyIdx - 1
  /\ Len(attempts) <= Len(files_to_copy)
  /\ \A i \in 1..Len(attempts) : attempts[i].file = files_to_copy[i]

\* C5: a failed copy is not fatal.  The step that makes a copy attempt,
\* failed or not, leaves the run in the copy loop with the worktree in
\* place; the attempts follow the list, one per file; and a run past the
\* loop has attempted every file and, exiting 0, has reported and kept the
\* worktree.
C5_CopyFailureNotFatal ==
  /\ [](AttemptsFollowList)
  /\ []((pc = "report" \/ exitCode = 0) => Len(attempts) = Len(files_to_copy))
  /\ [](exitCode = 0 => (worktreeOnDisk /\ report.printed
                          /\ report.files = Cardinality({i \in 1..Len(attempts) :
                                                           attempts[i].ok})))
  /\ [][attempts' # attempts =>
          /\ pc' = "copy_files"
          /\ exitCode' = -1
          /\ worktreeOnDisk'
          /\ Len(attempts') = Len(attempts) + 1]_vars

\* A run that exits 0 although its first copy failed and a later one did not.
C5_Witness ==
  /\ Exited
  /\ exitCode = 0
  /\ Len(attempts) >= 2
  /\ ~attempts[1].ok
  /\ attempts[2].ok

\* C6 as stated: every run ends with status 0 or 1 and no error leaves main
\* uncaught.
C6_AllErrorsCaught ==
  Exited => (exitCode \in {0, 1} /\ escaped = "none")

\* name ends with suffix
EndsWith(name, suffix) ==
  /\ Len(name) >= Len(suffix)
  /\ SubSeq(name, Len(name) - Len(suffix) + 1, Len(name)) = suffix

\* A directory name the blacklist names, literally or by its one glob.
BlacklistedName(name) ==
  \/ name \in BLACKLIST
  \/ EndsWith(name, <<".","e","g","g","-","i","n","f","o">>)

\* The path lies beneath a blacklisted directory.
UnderBlacklisted(path) ==
  \E k \in 1..(Len(path) - 1) : BlacklistedName(path[k])

\* C7: no file beneath a blacklisted directory, at any depth, is a
\* candidate, is reported as too large, is handed to the copier or is in the
\* worktree.
C7_BlacklistedSubtreesPruned ==
  /\ \A i \in 1..Len(files_to_copy) : ~UnderBlacklisted(files_to_copy[i])
  /\ \A f \in seen_files \cup warned_large \cup wtFiles : ~UnderBlacklisted(f)
  /\ \A i \in 1..Len(attempts) : ~UnderBlacklisted(attempts[i].file)

\* A tree with files beneath a glob-blacklisted and a nested blacklisted
\* directory whose names match a pattern, scanned.
C7_Witness ==
  /\ pc = "copy_files"
  /\ <<N_lib_egg_info, N_app_local_json>> \in DOMAIN fs
  /\ <<N_node_modules, N_dist, N_index_js>> \in DOMAIN fs
  /\ patterns = << <<"*">> >>
  /\ files_to_copy = << <<N_gitignore>> >>

\* The number of copy attempts made on file f.
TimesAttempted(f) ==
  Cardinality({i \in 1..Len(attempts) : attempts[i].file = f})

\* C8: no path is twice in the copy set, and once the loop is over every
\* scheduled file was attempted exactly once; in particular a common-config
\* file that exists is scheduled exactly once whether or not ignore
\* patterns match it too.
C8_EachPathOnce ==
  /\ \A i, j \in 1..Len(files_to_copy) :
       files_to_copy[i] = files_to_copy[j] => i = j
  /\ pc = "report" =>
       /\ \A i \in 1..Len(files_to_copy) : TimesAttempted(files_to_copy[i]) = 1
       /\ \A i \in 1..Len(COMMON_CONFIGS) :
            COMMON_CONFIGS[i] \in DOMAIN fs =>
              TimesAttempted(COMMON_CONFIGS[i]) = 1

\* .env matches two ignore patterns and is a common-config path.
C8_Witness ==
  /\ pc = "report"
  /\ <<N_env>> \in DOMAIN fs
  /\ Len(patterns) = 2
  /\ \A i \in 1..2 : fnmatch(N_env, patterns[i])
  /\ TimesAttempted(<<N_env>>) = 1

\* The line without its leading and trailing whitespace.
Trimmed(l) ==
  LET idx == {i \in 1..Len(l) : l[i] \notin Whitespace} IN
  IF idx = {} THEN <<>>
  ELSE SubSeq(l, CHOOSE i \in idx : \A j \in idx : i <= j,
                 CHOOSE i \in idx : \A j \in idx : j <= i)

\* t without its last character when that is a slash.
WithoutOneTrailingSlash(t) ==
  IF Len(t) > 0 /\ t[Len(t)] = "/" THEN SubSeq(t, 1, Len(t) - 1) ELSE t

\* t without the run of slashes at its end.
WithoutTrailingSlashes(t) ==
  LET k == CHOOSE k \in 0..Len(t) :
             /\ \A i \in (k + 1)..Len(t) : t[i] = "/"
             /\ (k = 0 \/ t[k] # "/")
  IN SubSeq(t, 1, k)

\* A blank, comment or negation line.
DroppedLine(t) == t = <<>> \/ t[1] \in {"#", "!"}

\* A pattern with a path separator or a double wildcard.
PathScoped(p) ==
  \/ "/" \in Range(p)
  \/ "\\" \in Range(p)
  \/ \E i \in 1..(Len(p) - 1) : p[i] = "*" /\ p[i + 1] = "*"

\* The pattern set when exactly one trailing slash is stripped.
PatternsStrippingOne(lines) ==
  { WithoutOneTrailingSlash(Trimmed(lines[i])) :
      i \in { j \in 1..Len(lines) :
                /\ ~DroppedLine(Trimmed(lines[j]))
                /\ ~PathScoped(WithoutOneTrailingSlash(Trimmed(lines[j]))) } }

\* The pattern set when every trailing slash is stripped.
PatternsStrippingAll(lines) ==
  { WithoutTrailingSlashes(Trimmed(lines[i])) :
      i \in { j \in 1..Len(lines) :
                /\ ~DroppedLine(Trimmed(lines[j]))
                /\ ~PathScoped(WithoutTrailingSlashes(Trimmed(lines[j]))) } }

\* C9 as stated: trimmed lines that are blank, comments or negations are
\* dropped, exactly one trailing slash is stripped, lines that then still
\* hold a separator or a double wildcard are dropped, and every other line
\* is a non-empty pattern.
C9_Original ==
  pc = "patterns_read" =>
    /\ Range(patterns) = PatternsStrippingOne(gitignore.lines)
    /\ \A p \in Range(patterns) : p # <<>>

\* C9, amended: as stated, except that every trailing slash is stripped,
\* not one, before the separator test, so a line ending in several slashes
\* is kept, and a line of slashes only yields the empty pattern.
C9_PatternsAsRead ==
  pc = "patterns_read" =>
    /\ Range(patterns) = PatternsStrippingAll(gitignore.lines)
    /\ \A p \in Range(patterns) :
         /\ ~PathScoped(p)
         /\ ~DroppedLine(p) \/ p = <<>>
         /\ p = <<>> =>
              \E i \in 1..Len(gitignore.lines) :
                /\ Trimmed(gitignore.lines[i]) # <<>>
                /\ Range(Trimmed(gitignore.lines[i])) = {"/"}

\* A line ending in two slashes was read and kept as a pattern.
C9_Witness ==
  /\ pc = "patterns_read"
  /\ gitignore.lines = << <<"a", "/", "/">> >>
  /\ patterns = << <<"a">> >>

\* The directories of a tree.
Dirs(tree) ==
  UNION { { SubSeq(f, 1, k) : k \in 1..(Len(f) - 1) } : f \in DOMAIN tree }

\* The names of the blacklisted directories that lie under no other
\* blacklisted directory.
TopBlacklistedDirs(tree) ==
  { d[Len(d)] :
      d \in { p \in Dirs(tree) :
                /\ BlacklistedName(p[Len(p)])
                /\ \A k \in 1..(Len(p) - 1) : ~BlacklistedName(p[k]) } }

\* Step 7 has run: the tree is known (it always holds .git).
Scanned == DOMAIN fs # {}

\* C10 as stated: skipped_dirs, as returned and as reported, holds the name
\* of every blacklisted directory not nested under another, with or without
\* an ignore file or a usable pattern.
C10_Original ==
  Scanned =>
    /\ TopBlacklistedDirs(fs) \subseteq skipped_dirs
    /\ report.printed => report.skipped = skipped_dirs

\* C10, amended: when the ignore file exists and can be read, skipped_dirs
\* is exactly the set of those names, with or without a usable pattern;
\* with no ignore file, or one that cannot be read, it is empty.  The
\* report shows skipped_dirs.
C10_SkippedDirs ==
  Scanned =>
    /\ skipped_dirs = IF gitignore.exists /\ gitignore.readable
                      THEN TopBlacklistedDirs(fs) ELSE {}
    /\ report.printed => report.skipped = skipped_dirs

\* Scenario B with an ignore file that has no usable pattern, reported.
C10_Witness ==
  /\ report.printed
  /\ gitignore.exists /\ gitignore.readable
  /\ patterns = <<>>
  /\ <<N_node_modules, N_dist, N_index_js>> \in DOMAIN fs
  /\ <<N_lib_egg_info, N_app_local_json>> \in DOMAIN fs
  /\ report.skipped = {N_git, N_node_modules, N_lib_egg_info}

\* C11: a second scan of an unchanged tree (the ignore-pattern scan, then
\* the common-config lookup) returns the same candidates, as many of them,
\* and the same skipped directory names as the first, whatever the order in
\* which the directories are listed the second time; and no step of the
\* scan changes the source tree or the ignore file.
C11_ScanRepeatable ==
  /\ [](rescan.done =>
          /\ Range(rescan.files) = Range(files_to_copy)
          /\ Len(rescan.files) = Len(files_to_copy)
          /\ rescan.skipped = skipped_dirs)
  /\ [][(pc \in {"find_configs", "copy_files", "rescan"}) =>
          (fs' = fs /\ gitignore' = gitignore)]_vars

\* A second scan that met the other listing order, returned the candidates
\* in another order and skipped a directory.
C11_Witness ==
  /\ rescan.done
  /\ listing = "reverse"
  /\ rescan.files # files_to_copy
  /\ Len(files_to_copy) >= 2
  /\ skipped_dirs # {}

\* The order of main's steps (lines 413-567).
StepOrder ==
  { <<"validate_repository", "repository_info">>,
    <<"repository_info", "validate_branch">>,
    <<"validate_branch", "check_path">>,
    <<"check_path", "check_branch">>,
    <<"check_branch", "create_worktree">>,
    <<"create_worktree", "find_files">>,
    <<"find_files", "find_configs">>,
    <<"find_configs", "copy_files">>,
    <<"copy_files", "report">> }

Passed(cmd) ==
  \E i \in 1..Len(commands) : commands[i].cmd = cmd /\ commands[i].ok

BranchValidated ==
  \E i \in 1..Len(commands) : commands[i].cmd = "check-ref-format --branch"

\* What C12 says of the worktree-add command and of Done.
AddAfterChecksDoneAfterReport ==
  /\ AddIssued =>
       /\ Passed("rev-parse --git-dir")
       /\ Passed("check-ref-format --branch")
       /\ ~existedAtStart
       /\ branch_exists <=> (Passed("show-ref refs/heads")
                              \/ Passed("show-ref refs/remotes/origin"))
  /\ exitCode = 0 =>
       /\ Exited
       /\ report.printed
       /\ AddSucceeded
       /\ ~cleanup_called
       /\ cleanupLog = <<>>
       /\ worktreeOnDisk

\* C12 as stated: the path-collision test is made before the branch name is
\* validated; worktree add is issued only after every check passed; exit
\* status 0 comes only after the report, a successful worktree add and no
\* cleanup.
C12_Original ==
  /\ pc = "check_path" => ~BranchValidated
  /\ AddAfterChecksDoneAfterReport

\* C12, amended: a run takes its steps only in the order repository check,
\* repository root, branch-name validation, path-collision test, branch
\* lookup, worktree add, ignore scan, common-config lookup, copy loop,
\* report, and may end after any of them; the branch name is validated
\* before the path-collision test is made; worktree add is issued only
\* after every check passed; exit status 0 comes only from the report
\* step, after a successful worktree add and with no cleanup.
C12_StepOrder ==
  /\ [](AddAfterChecksDoneAfterReport)
  /\ [](pc \in {"check_path", "check_branch", "create_worktree"}
          => Passed("check-ref-format --branch"))
  /\ [][pc' # pc =>
          /\ (<<pc, pc'>> \in StepOrder \/ pc' = "exited")
          /\ exitCode' = 0 => pc = "report"]_vars

\* A run that reached Done through every step, making a new branch.
C12_Witness ==
  /\ Exited
  /\ exitCode = 0
  /\ report.printed
  /\ Passed("worktree add -b")
  /\ Passed("check-ref-format --branch")
  /\ Len(commands) = 6

Issued(cmd) == \E i \in 1..Len(commands) : commands[i].cmd = cmd

AddPositions == {i \in 1..Len(commands) : commands[i].cmd \in AddCommands}

\* C13: the remote-tracking ref is looked up only right after a failed
\* lookup of the local ref, and always then; at most one worktree-add
\* command is ever issued and a run past step 6 has issued exactly one; it
\* is the plain form exactly when one of the lookups found the branch and
\* the -b form exactly when both were made and neither found it; a failed
\* worktree add is the last command of the run.
C13_BranchResolution ==
  /\ \A i \in 1..Len(commands) :
       /\ commands[i].cmd = "show-ref refs/remotes/origin" =>
            (i > 1 /\ commands[i - 1] = [cmd |-> "show-ref refs/heads",
                                         ok |-> FALSE])
       /\ commands[i] = [cmd |-> "show-ref refs/heads", ok |-> FALSE] =>
            (i < Len(commands)
               /\ commands[i + 1].cmd = "show-ref refs/remotes/origin")
       /\ commands[i] = [cmd |-> "show-ref refs/heads", ok |-> TRUE] =>
            ~Issued("show-ref refs/remotes/origin")
  /\ Cardinality(AddPositions) <= 1
  /\ (pc \in {"find_files", "find_configs", "copy_files", "report"}
        \/ exitCode = 0) => Cardinality(AddPositions) = 1
  /\ Issued("worktree add") =>
       (Passed("show-ref refs/heads") \/ Passed("show-ref refs/remotes/origin"))
  /\ Issued("worktree add -b") =>
       /\ Issued("show-ref refs/heads")
       /\ Issued("show-ref refs/remotes/origin")
       /\ ~Passed("show-ref refs/heads")
       /\ ~Passed("show-ref refs/remotes/origin")
  /\ \A i \in AddPositions :
       ~commands[i].ok => (i = Len(commands) /\ Exited /\ exitCode = 1)

\* The branch is on the remote only and the worktree is added onto it.
C13_Witness ==
  /\ ~Passed("show-ref refs/heads")
  /\ Passed("show-ref refs/remotes/origin")
  /\ Passed("worktree add")

\* The messages of main's three except clauses (lines 570, 574, 578).
HandlerMessages ==
  {"CalledProcessError", "Operation cancelled by user", "Unexpected error"}

\* C14 as stated: the cleanup never raises, so a run that called it ends
\* with the original error reported, caught by main, and status 1; and when
\* the removal command left the path in place, the recursive delete was
\* attempted.
C14_CleanupNeverRaises ==
  cleanup_called =>
    /\ Exited
    /\ escaped = "none"
    /\ exitCode = 1
    /\ errorMsg \in HandlerMessages
    /\ (cleanupLog # <<>> /\ cleanupLog[1] = RemoveStep(FALSE)) =>
         (Len(cleanupLog) = 2 /\ cleanupLog[2].step = "rmtree")

\* The files whose copy succeeded, in the order of the attempts.
CopiedFiles ==
  LET done == SelectSeq(attempts, LAMBDA a : a.ok)
  IN [i \in 1..Len(done) |-> done[i].file]

\* C15 as stated: the report comes after every copy was attempted; its file
\* count is the number of copies that succeeded and its total is the size
\* of exactly those files.
C15_ReportCountsCopied ==
  report.printed =>
    /\ Len(attempts) = Len(files_to_copy)
    /\ report.files = Len(CopiedFiles)
    /\ report.files > 0 =>
         report.total = format_size(sum_sizes(fs, CopiedFiles))

\* The two ends the state machine of main knows.
Done == Exited /\ exitCode = 0 /\ report.printed

Failed == Exited /\ exitCode = 1

\* Every run ends, and no copy or worktree add is made twice.
Terminates ==
  /\ <>Exited
  /\ [](\A f \in DOMAIN fs : TimesAttempted(f) <= 1)
  /\ [](Cardinality(AddPositions) <= 1)

\* C16 as stated: every run ends, in Done (status 0) or in Failed (status
\* 1); no file is copied and no worktree add is issued more than once.
C16_TerminatesDoneOrFailed ==
  /\ Terminates
  /\ [](Exited => (Done \/ Failed))

AddFailed ==
  \E i \in AddPositions : ~commands[i].ok

\* C17 as stated: when another actor made the path after this run's
\* path-collision test and this run's worktree add failed on it, the run
\* leaves the other actor's directory in place: no removal step of the
\* cleanup takes it.
C17_OnlyOwnWorktreeRemoved ==
  (createdBy = "other" /\ ~existedAtStart /\ AddFailed) =>
    /\ worktreeOnDisk
    /\ \A i \in 1..Len(cleanupLog) : ~cleanupLog[i].removed

\* C18 as stated: a run that failed after its worktree add -b went well
\* leaves neither the worktree directory, nor git's registration of the
\* worktree, nor the branch it made.
C18_AllOrNothing ==
  (FailedAfterCreation /\ Passed("worktree add -b")) =>
    /\ ~worktreeOnDisk
    /\ ~registered
    /\ ~newBranch

\* Where the copy of source file f lands (lines 520-521), as a path from
\* the source root, when the worktree lies inside it.
dest_path(f) == <<N_wt>> \o f

\* C19 as stated: every file handed to the copier lies in the source tree
\* and, when the worktree is inside the source root, outside the worktree;
\* its copy lands in the worktree at the same relative path, on no file
\* that the scan listed.
C19_CopiesStayApart ==
  \A i \in 1..Len(attempts) :
    LET f == attempts[i].file IN
    /\ f \in DOMAIN fs
    /\ attempts[i].ok => f \in wtFiles
    /\ wtInside =>
         /\ ~IsPrefix(<<N_wt>>, f)
         /\ dest_path(f) \notin DOMAIN fs
====
